---- MODULE Spec2Model ----
(***************************************************************************)
(* Analysis scripts of the stochastic-rounding examples: loading a table   *)
(* of samples, grouping by input coordinate, mean / standard deviation,    *)
(* the significant-digits estimator, the reference oracle and the error    *)
(* metrics (absolute, relative, ULP).                                      *)
(*                                                                         *)
(* Numbers.  Every sample, coordinate and reference value is an integer    *)
(* number of quanta of 2^-53, and arithmetic on them is exact (rationals). *)
(* A standard deviation is kept by its square.  A significant-digits value *)
(* is kept in units of log10(2)/2 decimal digits, rounded down, so that    *)
(* precision_bits * log10(2) is exactly 2 * precision_bits units and every *)
(* comparison with 0 and with that ceiling is exact.                       *)
(***************************************************************************)
EXTENDS Integers, Sequences, FiniteSets

VARIABLES script, ncols, precision_bits, oracle, file, header, bad, filter,
          pc, data, detected, todo, out, grid, log, inflight, max_ulp,
          failure, job

vars == <<script, ncols, precision_bits, oracle, file, header, bad, filter,
          pc, data, detected, todo, out, grid, log, inflight, max_ulp,
          failure, job>>

\* what a run never writes: its arguments and the table on disk
inputs == <<script, ncols, precision_bits, oracle, file, header, bad, filter>>

(***************************************************************************)
(* Bounds and input domains                                                *)
(***************************************************************************)
MaxRows == 3
MaxGridSamples == 2

ResultValues == <<-20, -1, 0, 1, 20, 60>>
X0Values == <<1, 2>>
X1Values == <<1>>
X2Values == <<1, 2>>
PrecisionValues == {1, 53}

(***************************************************************************)
(* Exact arithmetic                                                        *)
(***************************************************************************)
Abs(a) == IF a < 0 THEN -a ELSE a

RECURSIVE GCD(_, _)
GCD(a, b) == IF b = 0 THEN a ELSE GCD(b, a % b)

\* the rational n/d in lowest terms, d > 0
Rat(n, d) ==
    LET g == GCD(Abs(n), Abs(d))
        s == IF d < 0 THEN -1 ELSE 1
    IN  [n |-> s * (n \div g), d |-> s * (d \div g)]

RatInt(a) == [n |-> a, d |-> 1]
RatSub(p, q) == Rat(p.n * q.d - q.n * p.d, p.d * q.d)
RatAbs(p) == [n |-> Abs(p.n), d |-> p.d]
RatLt(p, q) == p.n * q.d < q.n * p.d
RatDiv(p, q) == Rat(p.n * q.d, p.d * q.n)

\* floor(log2(a/b)) for integers a, b > 0
RECURSIVE FloorLog2(_, _)
FloorLog2(a, b) ==
    IF a < b THEN FloorLog2(2 * a, b) - 1
    ELSE IF a >= 2 * b THEN FloorLog2(a, 2 * b) + 1
    ELSE 0

RECURSIVE SeqSum(_)
SeqSum(s) == IF s = <<>> THEN 0 ELSE Head(s) + SeqSum(Tail(s))

Min(a, b) == IF a <= b THEN a ELSE b

(***************************************************************************)
(* Floating values that need not be finite                                 *)
(***************************************************************************)
Fin(q) == [k |-> "fin", q |-> q]
NaN == [k |-> "nan", q |-> RatInt(0)]

IsZero(v) == v.k = "fin" /\ v.q.n = 0
IsPos(v) == v.k = "fin" /\ v.q.n > 0

(***************************************************************************)
(* Aggregator: mean and standard deviation of one group                    *)
(***************************************************************************)
\* sum over the samples of (n*x - S)^2, which is n^2 times the sum of the
\* squared deviations from the mean S/n
RECURSIVE SumSqDev(_, _, _)
SumSqDev(s, n, S) ==
    IF s = <<>> THEN 0
    ELSE (n * Head(s) - S) * (n * Head(s) - S) + SumSqDev(Tail(s), n, S)

\* np.mean / Series.mean
Mean(values) == Rat(SeqSum(values), Len(values))

\* standard deviation with divisor n - ddof, kept by its square; NaN when the
\* divisor is not positive
StdDdof(values, ddof) ==
    LET n == Len(values)
        S == SeqSum(values)
    IN  IF n - ddof <= 0 THEN NaN
        ELSE Fin(Rat(SumSqDev(values, n, S), n * n * (n - ddof)))

\* numpy: np.std(values), ddof = 0
np_std(values) == StdDdof(values, 0)

\* pandas: Series.std(), ddof = 1
pd_std(values) == StdDdof(values, 1)

(***************************************************************************)
(* SignificantDigitsEstimator                                              *)
(***************************************************************************)
SigFin(v) == [k |-> "fin", v |-> v]
SigInf == [k |-> "inf", v |-> 0]

\* precision_bits * log10(2)
MaxDigits(prec) == 2 * prec

\* -log10(std / |mean|) for std > 0, mean # 0
NegLog10Ratio(std, mean) ==
    FloorLog2(mean.n * mean.n * std.q.d, mean.d * mean.d * std.q.n)

\* (1e-15)^2 in squared quanta: (1e-15 * 2^53)^2 = 81.1296...
NegligibleStdSq == [n |-> 8113, d |-> 100]

\* example_1/plot.py, gelu/plot.py, gelu/sigfigplot.py
StottParker(mean, std, prec) ==
    IF IsZero(std) THEN SigFin(MaxDigits(prec))
    ELSE IF mean.n = 0 THEN SigFin(0)
    ELSE SigFin(Min(NegLog10Ratio(std, mean), MaxDigits(prec)))

\* softmax/plot.py, softmax/plotsigfigs.py
StottParkerBounded(mean, std, prec) ==
    IF RatLt(std.q, NegligibleStdSq) \/ IsZero(std)
    THEN SigFin(MaxDigits(prec))
    ELSE IF mean.n = 0 THEN SigFin(0)
    ELSE SigFin(Min(NegLog10Ratio(std, mean), MaxDigits(prec)))

\* gelu/ulpplot.py
SigDigitsUlpplot(mean, std) ==
    IF mean.n # 0 /\ IsPos(std) THEN SigFin(NegLog10Ratio(std, mean))
    ELSE IF IsZero(std) THEN SigInf ELSE SigFin(0)

\* parallel_sum/ulpscript.py, softmax/ulpscript.py
SigDigitsUlpscript(mean, std) ==
    IF mean.n # 0 /\ IsPos(std) THEN SigFin(NegLog10Ratio(std, mean))
    ELSE SigInf

(***************************************************************************)
(* ErrorEstimator                                                          *)
(***************************************************************************)
Float64FractionBits == 52
Float32FractionBits == 23
MinSubnormalExp64 == -1074
MinSubnormalExp32 == -149
MaxExp64 == 1024

\* one quantum is 2^QuantumExp
QuantumExp == -(Float64FractionBits + 1)

\* the value q * 2^e with q's numerator and denominator odd (0 is 0 * 2^0)
RECURSIVE Scaled(_, _)
Scaled(q, e) ==
    IF q.n = 0 THEN [k |-> "fin", q |-> RatInt(0), e |-> 0]
    ELSE IF q.n % 2 = 0 THEN Scaled(Rat(q.n \div 2, q.d), e + 1)
    ELSE IF q.d % 2 = 0 THEN Scaled(Rat(q.n, q.d \div 2), e - 1)
    ELSE [k |-> "fin", q |-> q, e |-> e]

ScaledInf == [k |-> "inf", q |-> RatInt(0), e |-> 0]

\* a float64 quotient: infinite from 2^MaxExp64 on
Float64Of(q, e) ==
    IF q.n # 0 /\ FloorLog2(Abs(q.n), q.d) + e >= MaxExp64
    THEN ScaledInf
    ELSE Scaled(q, e)

\* np.spacing(np.float64(v)) / np.spacing(np.float32(v)): s * 2^e quanta, with
\* the sign of v
np_spacing(v, fractionBits, minSubnormalExp) ==
    IF v = 0 THEN [s |-> 1, e |-> minSubnormalExp - QuantumExp]
    ELSE [s |-> IF v < 0 THEN -1 ELSE 1,
          e |-> FloorLog2(Abs(v), 1) - fractionBits]

\* the absolute value taken of the mean alone
AbsError_AbsOfMean(mean, true_val) == RatSub(RatAbs(mean), RatInt(true_val))

\* abs(mean_val - true_val)
AbsError(mean, true_val) == RatAbs(RatSub(mean, RatInt(true_val)))

\* abs(ulp)
AbsSpacing(ulp) == [s |-> 1, e |-> ulp.e]

\* abs_error / ulp, a float64
DivUlp(abs_error, ulp) ==
    Float64Of(Rat(ulp.s * abs_error.n, abs_error.d), -ulp.e)

\* gelu/ulpplot.py: ulp = abs(np.spacing(..)); abs_error / ulp if ulp != 0
\* (a spacing s * 2^e is never 0)
UlpErrorAbs(mean, true_val) ==
    LET ulp == AbsSpacing(np_spacing(true_val, Float64FractionBits,
                                     MinSubnormalExp64))
    IN  DivUlp(AbsError(mean, true_val), ulp)

\* parallel_sum/ulpscript.py: abs_error / ulp if ulp > 0 else 0.0
UlpErrorSigned64(mean, true_val) ==
    LET ulp == np_spacing(true_val, Float64FractionBits, MinSubnormalExp64)
    IN  IF ulp.s > 0 THEN DivUlp(AbsError(mean, true_val), ulp)
        ELSE Scaled(RatInt(0), 0)

\* softmax/ulpscript.py: the same on np.float32(true_val)
UlpErrorSigned32(mean, true_val) ==
    LET ulp == np_spacing(true_val, Float32FractionBits, MinSubnormalExp32)
    IN  IF ulp.s > 0 THEN DivUlp(AbsError(mean, true_val), ulp)
        ELSE Scaled(RatInt(0), 0)

\* a > b on ulp errors, which are never negative; inf > inf is false
ScaledGreater(a, b) ==
    IF b.k = "inf" THEN FALSE
    ELSE IF a.k = "inf" THEN TRUE
    ELSE IF a.q.n = 0 THEN FALSE
    ELSE IF b.q.n = 0 THEN TRUE
    ELSE LET la == FloorLog2(a.q.n, a.q.d) + a.e
             lb == FloorLog2(b.q.n, b.q.d) + b.e
         IN  IF la # lb THEN la > lb
             ELSE IF a.e >= b.e
             THEN a.q.n * b.q.d * 2^(a.e - b.e) > b.q.n * a.q.d
             ELSE a.q.n * b.q.d > b.q.n * a.q.d * 2^(b.e - a.e)

\* a quotient, or the marker of a division by zero
Quotient(p, q) == IF q.n = 0 THEN [k |-> "div0", q |-> RatInt(0)]
                  ELSE Fin(RatDiv(p, q))

\* the division without the guard for a zero expected value
RelativeError_Unguarded(mu, expected) ==
    Quotient(AbsError(mu, expected), RatAbs(RatInt(expected)))

\* gelu/plot.py
RelativeError(mu, expected) ==
    IF expected # 0
    THEN Quotient(AbsError(mu, expected), RatAbs(RatInt(expected)))
    ELSE IF mu # RatInt(expected) THEN Fin(AbsError(mu, expected))
    ELSE Fin(RatInt(0))

(***************************************************************************)
(* Scripts and their inputs                                                *)
(***************************************************************************)
NumpyLineScripts == {"example_1/plot.py", "gelu/plot.py", "gelu/sigfigplot.py"}
PandasLineScripts == {"gelu/ulpplot.py", "parallel_sum/ulpscript.py"}
GridScripts == {"softmax/plot.py", "softmax/plotsigfigs.py"}
UlpScripts == PandasLineScripts \cup {"softmax/ulpscript.py"}
Scripts == NumpyLineScripts \cup GridScripts \cup UlpScripts

\* the column counts of the tables a script is run on
ColumnCounts(sc) ==
    IF sc \in GridScripts THEN {3, 4, 5}
    ELSE IF sc = "softmax/ulpscript.py" THEN {5}
    ELSE {3}

\* the reference program (or expected function), the coordinate x0 at which
\* the reference program does not answer (0: nowhere) and what it does there:
\* exit with a non-zero status, or never return
RefPrograms == {"x", "-x", "0"}
Oracles(sc) ==
    IF sc \in UlpScripts
    THEN [f : RefPrograms, fail_at : {0}, mode : {"exit"}]
         \cup [f : RefPrograms, fail_at : {X0Values[j] : j \in DOMAIN X0Values},
                mode : {"exit", "hang"}]
    ELSE IF sc = "gelu/plot.py"
    THEN [f : RefPrograms \cup {"none", "invalid"}, fail_at : {0},
          mode : {"exit"}]
    ELSE [f : {"none"}, fail_at : {0}, mode : {"exit"}]

Precisions(sc) == IF sc \in UlpScripts THEN {53} ELSE PrecisionValues

\* the c-th coordinate (from 0) of a table with nd input columns, in
\* lexicographic order
NumCoords(nd) ==
    IF nd = 1 THEN Len(X0Values)
    ELSE IF nd = 2 THEN Len(X0Values) * Len(X1Values)
    ELSE Len(X0Values) * Len(X1Values) * Len(X2Values)

CoordOf(c, nd) ==
    IF nd = 1 THEN <<X0Values[c + 1]>>
    ELSE IF nd = 2
    THEN <<X0Values[(c \div Len(X1Values)) + 1],
           X1Values[(c % Len(X1Values)) + 1]>>
    ELSE <<X0Values[(c \div (Len(X1Values) * Len(X2Values))) + 1],
           X1Values[((c \div Len(X2Values)) % Len(X1Values)) + 1],
           X2Values[(c % Len(X2Values)) + 1]>>

\* the nondecreasing sequences of length len over lo..hi
RECURSIVE SortedSeqs(_, _, _)
SortedSeqs(len, lo, hi) ==
    IF len = 0 THEN {<<>>}
    ELSE UNION {{<<k>> \o t : t \in SortedSeqs(len - 1, k, hi)} : k \in lo..hi}

\* the sample index of the j-th row: its rank among the rows of its coordinate
SampleIndex(idx, j, nr) ==
    Cardinality({h \in 1..j : idx[h] \div nr = idx[j] \div nr})

\* a table: rows <<i, x0, [x1, [x2,]] result>>, coordinates in grid order and
\* the samples of a coordinate on consecutive rows
TableOf(idx, nc) ==
    LET nr == Len(ResultValues)
    IN  [j \in 1..Len(idx) |->
            <<SampleIndex(idx, j, nr)>> \o CoordOf(idx[j] \div nr, nc - 2)
                \o <<ResultValues[(idx[j] % nr) + 1]>>]

Tables(nc) ==
    {TableOf(idx, nc) :
        idx \in UNION {SortedSeqs(len, 0, NumCoords(nc - 2) * Len(ResultValues) - 1)
                          : len \in 1..MaxRows}}

\* the first line of a table: the column names ("i x result", "i x0 x1
\* result", ...), a '#' comment, or already the first data row
HeaderKinds == {"names", "comment", "none"}

NoDetection == [total_inputs |-> 0, varying |-> <<>>]
NoGrid == [kind |-> "none"]

\* --filter of softmax/plot.py: a list of (input, value) pairs; empty when the
\* option is not given
NoFilter == <<>>

\* what a run has done so far, stage by stage
Event(stage, key) == [stage |-> stage, key |-> key]

\* max_ulp_error = 0.0; max_ulp_x = None
NoMax == [error |-> Scaled(RatInt(0), 0), x |-> <<>>]

\* how a run ended when it did not end well; stderr: the message shows what
\* the reference program wrote on its standard error
NoFailure == [kind |-> "none", stderr |-> FALSE]
LoadFailure == [kind |-> "load", stderr |-> FALSE]

\* a run that has read nothing yet
Start ==
    /\ pc = "load"
    /\ data = <<>>
    /\ detected = NoDetection
    /\ todo = <<>>
    /\ out = <<>>
    /\ grid = NoGrid
    /\ log = <<>>
    /\ inflight = 0
    /\ max_ulp = NoMax
    /\ failure = NoFailure
    /\ job = [pc |-> "idle"]

Init ==
    /\ script \in Scripts
    /\ ncols \in ColumnCounts(script)
    /\ precision_bits \in Precisions(script)
    /\ oracle \in Oracles(script)
    /\ file \in Tables(ncols)
    /\ header = "names"
    /\ bad = {}
    /\ filter = NoFilter
    /\ Start

(***************************************************************************)
(* Load: the table as the script reads it, and the order of its loop       *)
(***************************************************************************)
\* the (coordinate, result) a script takes from one row
Sample(sc, nc, row) ==
    IF sc = "softmax/plotsigfigs.py"
    THEN IF nc = 4 THEN [key |-> <<row[2], row[3]>>, result |-> row[4]]
         ELSE IF nc = 3 THEN [key |-> <<row[1], row[2]>>, result |-> row[3]]
         ELSE [key |-> <<row[2], row[3]>>, result |-> row[5]]
    ELSE IF sc = "softmax/plot.py"
    THEN [key |-> SubSeq(row, 2, nc - 1), result |-> row[nc]]
    ELSE IF sc = "softmax/ulpscript.py"
    THEN [key |-> <<row[2], row[3], row[4]>>, result |-> row[5]]
    ELSE [key |-> <<row[2]>>, result |-> row[3]]

\* the distinct values in descending order
RECURSIVE UniqueSorted_Descending(_)
UniqueSorted_Descending(S) ==
    IF S = {} THEN <<>>
    ELSE LET m == CHOOSE x \in S : \A y \in S : y <= x
         IN  <<m>> \o UniqueSorted_Descending(S \ {m})

\* np.unique: the distinct values in ascending order
RECURSIVE UniqueSorted(_)
UniqueSorted(S) ==
    IF S = {} THEN <<>>
    ELSE LET m == CHOOSE x \in S : \A y \in S : x <= y
         IN  <<m>> \o UniqueSorted(S \ {m})

\* the number of lines before the first data row
HeaderLines(hdr) == IF hdr = "none" THEN 0 ELSE 1

\* np.loadtxt(filename, skiprows=skip, dtype=...): the data rows it parses
\* (rows: their numbers in the table), and whether it raises: on the column
\* names line when that line is not skipped, and on a row with a field that
\* is not a number.  A '#' line is a comment to it, but counts in skiprows.
NpLoadtxt(hdr, f, b, skip) ==
    LET rows == {j \in DOMAIN f : j + HeaderLines(hdr) > skip}
    IN  [ok |-> ~(hdr = "names" /\ skip = 0) /\ rows \cap b = {}, rows |-> rows]

\* the header_lines count of the gelu plots: the '#' lines, the "i x result"
\* line and every line that does not parse as (int, float, float), up to the
\* first line that does
CountHeaderLines(hdr, f, b) ==
    HeaderLines(hdr)
        + Cardinality({j \in DOMAIN f : \A h \in 1..j : h \in b})

\* pd.read_csv(comment='#', names=...), pd.to_numeric(errors='coerce') and
\* dropna(): the column names line and every row with a field that is not a
\* number become NaN rows and are dropped
ReadCsvDropna(hdr, f, b) == [ok |-> TRUE, rows |-> DOMAIN f \ b]

\* the rows a script loads
RowsRead(sc, hdr, f, b) ==
    IF sc = "example_1/plot.py"
    THEN LET first == NpLoadtxt(hdr, f, b, 1)
         IN  IF first.ok THEN first ELSE NpLoadtxt(hdr, f, b, 0)
    ELSE IF sc \in {"gelu/plot.py", "gelu/sigfigplot.py"}
    THEN NpLoadtxt(hdr, f, b, CountHeaderLines(hdr, f, b))
    ELSE IF sc \in {"gelu/ulpplot.py", "parallel_sum/ulpscript.py"}
    THEN ReadCsvDropna(hdr, f, b)
    ELSE NpLoadtxt(hdr, f, b, 1)

LoadedData(sc, nc, f, rows) ==
    LET idx == UniqueSorted(rows)
    IN  [j \in 1..Len(idx) |->
            LET s == Sample(sc, nc, f[idx[j]])
            IN  [key |-> s.key, result |-> s.result, line |-> idx[j]]]

Column(d, k) == {d[j].key[k] : j \in DOMAIN d}

RECURSIVE ConcatMap(_, _)
ConcatMap(vals, rest) ==
    IF vals = <<>> THEN <<>>
    ELSE [j \in 1..Len(rest) |-> <<Head(vals)>> \o rest[j]]
             \o ConcatMap(Tail(vals), rest)

\* for x0 in unique_x0: for x1 in unique_x1: ... , outermost first
RECURSIVE NestedLoops(_)
NestedLoops(u) ==
    IF u = <<>> THEN << <<>> >>
    ELSE ConcatMap(Head(u), NestedLoops(Tail(u)))

UniqueColumns(d) ==
    [k \in 1..Len(d[1].key) |-> UniqueSorted(Column(d, k))]

KeyPresent(d, key) == \E j \in DOMAIN d : d[j].key = key

\* df.groupby(keys): the keys present, in ascending order
GroupbyKeys(d) ==
    SelectSeq(NestedLoops(UniqueColumns(d)), LAMBDA key : KeyPresent(d, key))

LoopOrder(sc, d) ==
    IF d = <<>> THEN <<>>
    ELSE IF sc \in UlpScripts THEN GroupbyKeys(d)
    ELSE NestedLoops(UniqueColumns(d))

\* detect_input_count: the number of input columns, from the column names or
\* else from the second line of the file, and the inputs (0, 1, 2 for x0, x1,
\* x2) whose column holds more than one value in np.loadtxt(skiprows=1)
DetectInputCount(hdr, f, nc, rows) ==
    LET total == IF hdr = "none" /\ Len(f) < 2 THEN -2 ELSE nc - 2
    IN  [total_inputs |-> total,
         varying |-> SelectSeq(<<0, 1, 2>>,
                         LAMBDA k : /\ k < total
                                    /\ Cardinality({f[j][k + 2] : j \in rows}) > 1)]

\* np.loadtxt returns a single row without its row axis: data.shape[1]
\* (plotsigfigs) and len(data) (softmax/plot.py, example_1/plot.py) raise on
\* it; data.shape[1] also raises on no row at all, and gelu/ulpplot.py exits
\* on an empty frame
LoadFails(sc, n) ==
    \/ n = 1 /\ sc \in {"softmax/plotsigfigs.py", "softmax/plot.py",
                         "example_1/plot.py"}
    \/ n = 0 /\ sc \in {"softmax/plotsigfigs.py", "gelu/ulpplot.py"}

\* np.zeros((len(unique_x1), len(unique_x0))): cell <<j, i>> is row j (x1),
\* column i (x0)
ZeroGrid(kind, xs, ys) ==
    [kind |-> kind, xs |-> xs, ys |-> ys,
     sig |-> [c \in (1..Len(ys)) \X (1..Len(xs)) |-> SigFin(0)]]

\* filter_data of softmax/plot.py: the rows whose input var is val, for every
\* pair of the filter that names an input of the table
FilterData(d, flt, n_inputs) ==
    SelectSeq(d, LAMBDA s :
        \A j \in DOMAIN flt :
            flt[j].var <= n_inputs => s.key[flt[j].var] = flt[j].val)

\* the reference program is not there, or may not be executed
OracleMissing(o) == o.mode = "missing"

\* os.path.exists / os.access of gelu/ulpplot.py: sys.exit(1) with a message
\* that names the program
OracleUnavailable == [kind |-> "unavailable", stderr |-> FALSE]

Load ==
    /\ pc = "load"
    /\ LET r == RowsRead(script, header, file, bad)
           all == LoadedData(script, ncols, file, r.rows)
           d == IF script = "softmax/plot.py"
                THEN FilterData(all, filter, ncols - 2)
                ELSE all
       IN  IF script = "gelu/ulpplot.py" /\ OracleMissing(oracle)
           THEN \* os.path.exists, os.access: before anything is read
                /\ pc' = "aborted"
                /\ failure' = OracleUnavailable
                /\ UNCHANGED <<data, detected, todo, grid, log>>
           ELSE IF ~r.ok \/ LoadFails(script, Cardinality(r.rows))
           THEN \* the loader raises: sys.exit(1) or an uncaught exception
                /\ pc' = "aborted"
                /\ failure' = LoadFailure
                /\ log' = <<Event("Load", <<>>)>>
                /\ UNCHANGED <<data, detected, todo, grid>>
           ELSE /\ pc' = "loop"
                /\ failure' = failure
                /\ log' = <<Event("Load", <<>>)>>
                              \o (IF script \in UlpScripts
                                  \* with open(output_csv, 'w')
                                  THEN <<Event("OpenOutput", <<>>)>>
                                  ELSE <<>>)
                /\ data' = d
                /\ detected' =
                       IF script = "softmax/plot.py"
                       THEN DetectInputCount(header, file, ncols, r.rows)
                       ELSE detected
                /\ todo' = LoopOrder(script, d)
                /\ grid' =
                       IF script = "softmax/plotsigfigs.py"
                       THEN LET u == UniqueColumns(d)
                            IN  ZeroGrid("sig_digits_grid", u[1], u[2])
                       ELSE grid
    /\ UNCHANGED <<inputs, out, inflight, max_ulp, job>>

(***************************************************************************)
(* The loop body: one coordinate                                           *)
(***************************************************************************)
Mask(d, key) == {j \in DOMAIN d : d[j].key = key}

RECURSIVE ResultsOf(_, _)
ResultsOf(d, key) ==
    IF d = <<>> THEN <<>>
    ELSE (IF Head(d).key = key THEN <<Head(d).result>> ELSE <<>>)
             \o ResultsOf(Tail(d), key)

StdOf(sc, values) == IF sc \in UlpScripts THEN pd_std(values) ELSE np_std(values)

SigDigitsOf(sc, mean, std, prec) ==
    IF sc \in NumpyLineScripts THEN StottParker(mean, std, prec)
    ELSE IF sc \in GridScripts THEN StottParkerBounded(mean, std, prec)
    ELSE IF sc = "gelu/ulpplot.py" THEN SigDigitsUlpplot(mean, std)
    ELSE SigDigitsUlpscript(mean, std)

\* what the reference program prints for a coordinate
RefValue(f, key) ==
    IF f = "x" THEN key[1] ELSE IF f = "-x" THEN -key[1] ELSE 0

\* subprocess.run(..., check=True) raises for this coordinate
OracleFails(o, key) == key[1] = o.fail_at /\ o.mode = "exit"

\* subprocess.run(...) is given no timeout: it waits for a reference program
\* that never returns
OracleHangs(o, key) == key[1] = o.fail_at /\ o.mode = "hang"

UlpErrorOf(sc, mean, true_val) ==
    IF sc = "gelu/ulpplot.py" THEN UlpErrorAbs(mean, true_val)
    ELSE IF sc = "parallel_sum/ulpscript.py" THEN UlpErrorSigned64(mean, true_val)
    ELSE UlpErrorSigned32(mean, true_val)

NoRef ==
    [kind |-> "none", true_value |-> 0, abs_error |-> RatInt(0),
     ulp_error |-> Scaled(RatInt(0), 0), relative_error |-> Fin(RatInt(0))]

RefRecord(sc, o, key, mean) ==
    IF sc \in UlpScripts
    THEN LET tv == RefValue(o.f, key)
         IN  [kind |-> "ulp", true_value |-> tv,
              abs_error |-> AbsError(mean, tv),
              ulp_error |-> UlpErrorOf(sc, mean, tv),
              relative_error |-> Fin(RatInt(0))]
    ELSE IF sc = "gelu/plot.py" /\ o.f # "none"
    THEN LET expected == RefValue(o.f, key)
         IN  [kind |-> "rel", true_value |-> expected,
              abs_error |-> AbsError(mean, expected),
              ulp_error |-> Scaled(RatInt(0), 0),
              relative_error |-> RelativeError(mean, expected)]
    ELSE NoRef

GroupRecord(sc, o, prec, d, key) ==
    LET values == ResultsOf(d, key)
        mean == Mean(values)
        std == StdOf(sc, values)
    IN  [key |-> key, rows |-> Mask(d, key), count |-> Len(values),
         mean |-> mean, std |-> std,
         sig_digits |-> SigDigitsOf(sc, mean, std, prec),
         ref |-> RefRecord(sc, o, key, mean)]

\* list.index / np.where(...)[0][0]: the position of a value on an axis
IndexOf(axis, v) == CHOOSE k \in DOMAIN axis : axis[k] = v

\* every coordinate on the first row
CellOf_FirstRow(g, key, ix, iy) == <<1, IndexOf(g.xs, key[ix])>>

\* the cell of a coordinate: row by its component iy, column by its
\* component ix
CellOf(g, key, ix, iy) == <<IndexOf(g.ys, key[iy]), IndexOf(g.xs, key[ix])>>

\* the digits before the statistics they are computed from
StatEvents_EstimateFirst(key) ==
    <<Event("EstimateDigits", key), Event("Aggregate", key)>>

\* the mean and standard deviation of a coordinate, then its digits
StatEvents(key) == <<Event("Aggregate", key), Event("EstimateDigits", key)>>

\* one call for every sample of the coordinate
OracleCalls_PerSample(d, key) ==
    [j \in 1..Cardinality(Mask(d, key)) |-> Event("Oracle", key)]

\* true_val = get_true_value(x_value): one call for the coordinate, after
\* its samples were reduced to their mean
OracleCalls(d, key) == <<Event("Oracle", key)>>

\* the loop body up to the call of the reference: the ULP scripts call it
\* after the statistics, gelu/plot.py evaluates the expected function first
CallEvents(sc, d, key) ==
    IF sc \in UlpScripts THEN StatEvents(key) \o OracleCalls(d, key)
    ELSE OracleCalls(d, key)

\* the loop body after the call: the ULP scripts write their row at once
ReturnEvents(sc, key) ==
    IF sc \in UlpScripts
    THEN <<Event("ErrorEstimate", key), Event("Assemble", key)>>
    ELSE StatEvents(key) \o <<Event("ErrorEstimate", key)>>

\* one whole loop body
GroupEvents(sc, o, d, key) ==
    IF sc \in UlpScripts \/ (sc = "gelu/plot.py" /\ o.f # "none")
    THEN CallEvents(sc, d, key) \o ReturnEvents(sc, key)
    ELSE IF sc = "softmax/plotsigfigs.py"
    THEN StatEvents(key) \o <<Event("Assemble", key)>>
    ELSE StatEvents(key)

\* float(result.stdout.strip()) raises ValueError for this coordinate
OracleUnparseable(o, key) == key[1] = o.fail_at /\ o.mode = "parse"

\* CalledProcessError: gelu/ulpplot.py prints e.stderr and exits; the other
\* two scripts do not catch it, and its traceback holds the command and the
\* exit status only
ExecutionFailure(sc) == [kind |-> "execution", stderr |-> sc = "gelu/ulpplot.py"]

\* the call of the reference gives no value for this coordinate
OracleGivesNoValue(o, key) ==
    OracleMissing(o) \/ OracleFails(o, key) \/ OracleUnparseable(o, key)

\* subprocess.run on a program that is not there raises FileNotFoundError;
\* float(...) on an output that is no number raises ValueError ("Error
\* parsing output" of gelu/ulpplot.py, or the traceback)
OracleFailure(sc, o, key) ==
    IF OracleMissing(o) THEN OracleUnavailable
    ELSE IF OracleFails(o, key) THEN ExecutionFailure(sc)
    ELSE [kind |-> "parse", stderr |-> FALSE]

\* the maximum moved to a later coordinate that only equals it
MaxAfter_LastAttaining(sc, m, ulp_error, key) ==
    IF sc # "softmax/ulpscript.py" /\ ~ScaledGreater(m.error, ulp_error)
    THEN [error |-> ulp_error, x |-> key]
    ELSE m

\* if ulp_error > max_ulp_error: max_ulp_error = ulp_error; max_ulp_x = x
\* (softmax/ulpscript.py keeps no maximum)
MaxAfter(sc, m, ulp_error, key) ==
    IF sc # "softmax/ulpscript.py" /\ ScaledGreater(ulp_error, m.error)
    THEN [error |-> ulp_error, x |-> key]
    ELSE m

ProcessGroup ==
    /\ pc = "loop"
    /\ todo # <<>>
    /\ LET key == Head(todo)
       IN  IF Mask(data, key) = {}
           THEN \* if np.any(mask): nothing for an absent combination
                /\ todo' = Tail(todo)
                /\ UNCHANGED <<pc, out, grid, log, inflight, max_ulp, failure>>
           ELSE IF script \in UlpScripts /\ OracleGivesNoValue(oracle, key)
           THEN \* sys.exit(1) or an uncaught exception
                /\ pc' = "aborted"
                /\ log' = log \o CallEvents(script, data, key)
                /\ failure' = OracleFailure(script, oracle, key)
                /\ UNCHANGED <<out, todo, grid, inflight, max_ulp>>
           ELSE IF script \in UlpScripts /\ OracleHangs(oracle, key)
           THEN \* subprocess.run does not return
                /\ pc' = "blocked"
                /\ log' = log \o CallEvents(script, data, key)
                /\ inflight' = inflight + 1
                /\ UNCHANGED <<out, todo, grid, max_ulp, failure>>
           ELSE IF script = "gelu/plot.py" /\ oracle.f = "invalid"
           THEN \* expected = expected_func(x) raises
                /\ pc' = "aborted"
                /\ log' = log \o CallEvents(script, data, key)
                /\ failure' = [kind |-> "expected_function", stderr |-> FALSE]
                /\ UNCHANGED <<out, todo, grid, inflight, max_ulp>>
           ELSE LET r == GroupRecord(script, oracle, precision_bits, data, key)
                IN  /\ out' = Append(out, r)
                    /\ todo' = Tail(todo)
                    /\ log' = log \o GroupEvents(script, oracle, data, key)
                    /\ max_ulp' =
                           IF script \in UlpScripts
                           THEN MaxAfter(script, max_ulp, r.ref.ulp_error, key)
                           ELSE max_ulp
                    /\ grid' =
                           IF script = "softmax/plotsigfigs.py"
                           THEN \* sig_digits_grid[j, i] = sig_digits
                                [grid EXCEPT !.sig[CellOf(grid, key, 1, 2)] =
                                                 r.sig_digits]
                           ELSE grid
                    /\ UNCHANGED <<pc, inflight, failure>>
    /\ UNCHANGED <<inputs, data, detected, job>>

(***************************************************************************)
(* After the loop: the grids of softmax/plot.py                            *)
(***************************************************************************)
\* the values of component k over the statistics
StatValues(stats, k) == UniqueSorted({stats[j].key[k] : j \in DOMAIN stats})

\* the two axes exchanged
HeatmapAxes_Swapped(stats, n_inputs) ==
    IF n_inputs = 2 THEN [x |-> 2, y |-> 1]
    ELSE IF Len(StatValues(stats, 3)) = 1 THEN [x |-> 2, y |-> 1]
    ELSE IF Len(StatValues(stats, 2)) = 1 THEN [x |-> 3, y |-> 1]
    ELSE [x |-> 3, y |-> 2]

\* plot_2d_heatmap: the components on the column axis (x) and on the row
\* axis (y)
HeatmapAxes(stats, n_inputs) ==
    IF n_inputs = 2 THEN [x |-> 1, y |-> 2]
    ELSE IF Len(StatValues(stats, 3)) = 1 THEN [x |-> 1, y |-> 2]
    ELSE IF Len(StatValues(stats, 2)) = 1 THEN [x |-> 1, y |-> 3]
    ELSE [x |-> 2, y |-> 3]

\* for s in stats: matrix[j, i] = value, on a matrix of zeros
RECURSIVE AssignCells(_, _, _, _)
AssignCells(m, g, ax, writes) ==
    IF writes = <<>> THEN m
    ELSE AssignCells(
             [m EXCEPT ![CellOf(g, Head(writes).key, ax.x, ax.y)] = Head(writes).v],
             g, ax, Tail(writes))

plot_2d_heatmap(stats, n_inputs) ==
    LET ax == HeatmapAxes(stats, n_inputs)
        g == [xs |-> StatValues(stats, ax.x), ys |-> StatValues(stats, ax.y)]
        cells == (1..Len(g.ys)) \X (1..Len(g.xs))
    IN  [kind |-> "heatmap", xs |-> g.xs, ys |-> g.ys,
         mean |-> AssignCells([c \in cells |-> RatInt(0)], g, ax,
                     [j \in DOMAIN stats |->
                         [key |-> stats[j].key, v |-> stats[j].mean]]),
         std |-> AssignCells([c \in cells |-> Fin(RatInt(0))], g, ax,
                     [j \in DOMAIN stats |->
                         [key |-> stats[j].key, v |-> stats[j].std]]),
         sig |-> AssignCells([c \in cells |-> SigFin(0)], g, ax,
                     [j \in DOMAIN stats |->
                         [key |-> stats[j].key, v |-> stats[j].sig_digits]])]

\* for s in stats: sig_grid[j, i] += s['sig_digits']; count_grid[j, i] += 1
RECURSIVE Accumulate(_, _, _, _)
Accumulate(m, g, ax, stats) ==
    IF stats = <<>> THEN m
    ELSE LET c == CellOf(g, Head(stats).key, ax.x, ax.y)
         IN  Accumulate(
                 [m EXCEPT ![c] = [sum |-> @.sum + Head(stats).sig_digits.v,
                                   count |-> @.count + 1]],
                 g, ax, Tail(stats))

\* one plane of plot_3d_significant_digits: sig_grid[mask] /= count_grid[mask]
\* where count_grid > 0
Projection(stats, ax) ==
    LET g == [xs |-> StatValues(stats, ax.x), ys |-> StatValues(stats, ax.y)]
        cells == (1..Len(g.ys)) \X (1..Len(g.xs))
        acc == Accumulate([c \in cells |-> [sum |-> 0, count |-> 0]], g, ax, stats)
    IN  [xs |-> g.xs, ys |-> g.ys, x |-> ax.x, y |-> ax.y,
         sig |-> [c \in cells |->
                     IF acc[c].count > 0 THEN Rat(acc[c].sum, acc[c].count)
                     ELSE RatInt(0)]]

plot_3d_significant_digits(stats) ==
    [kind |-> "projections",
     planes |-> <<Projection(stats, [x |-> 1, y |-> 2]),
                  Projection(stats, [x |-> 1, y |-> 3]),
                  Projection(stats, [x |-> 2, y |-> 3])>>]

\* main of softmax/plot.py with --plot-type auto: the figure by the number
\* of varying inputs that load_data returned
PlotType(det) ==
    IF Len(det.varying) = 1 THEN "line"
    ELSE IF Len(det.varying) = 2 THEN "heatmap"
    ELSE "stats"

\* main of softmax/plot.py with --plot-type auto: the heatmap for two
\* varying inputs, the three projections for three
PlotOf(det, stats) ==
    IF Len(det.varying) = 2 THEN plot_2d_heatmap(stats, det.total_inputs)
    ELSE IF Len(det.varying) = 3 /\ det.total_inputs = 3
    THEN plot_3d_significant_digits(stats)
    ELSE NoGrid

\* what follows the loop: the plots, and the table of statistics of the
\* scripts that did not write it row by row
Finish ==
    /\ pc = "loop"
    /\ todo = <<>>
    /\ pc' = "done"
    /\ grid' = IF script = "softmax/plot.py" THEN PlotOf(detected, out) ELSE grid
    /\ log' = IF script \in UlpScripts THEN log
              ELSE Append(log, Event("Assemble", <<>>))
    /\ UNCHANGED <<inputs, data, detected, todo, out, inflight, max_ulp,
                   failure, job>>

Next == Load \/ ProcessGroup \/ Finish

Spec == Init /\ [][Next]_vars

(***************************************************************************)
(* The grid scripts on tables over a grid of coordinates, some of them     *)
(* absent                                                                  *)
(***************************************************************************)
\* the values of each input column: 3 x 2 for two inputs, 2 x 2 x 2 for three
GridAxes(nd) ==
    IF nd = 2 THEN << <<1, 2, 3>>, <<1, 2>> >>
    ELSE << <<1, 2>>, <<1, 2>>, <<1, 2>> >>

\* the i-th sample of the c-th coordinate: the samples of a coordinate
\* alternate between two values, and differ from coordinate to coordinate
GridResult(c, i) == 20 * c + (IF i % 2 = 0 THEN 40 ELSE 0)

RECURSIVE GridRows(_, _, _)
GridRows(coords, counts, c) ==
    IF c > Len(coords) THEN <<>>
    ELSE [i \in 1..counts[c] |-> <<i>> \o coords[c] \o <<GridResult(c, i)>>]
             \o GridRows(coords, counts, c + 1)

\* 0..MaxGridSamples samples at each coordinate of the grid, one at least
GridTables(nc) ==
    LET coords == NestedLoops(GridAxes(nc - 2))
    IN  {GridRows(coords, counts, 1) :
            counts \in {cn \in [DOMAIN coords -> 0..MaxGridSamples] :
                           \E c \in DOMAIN coords : cn[c] > 0}}

InitGrid ==
    /\ script \in GridScripts
    /\ ncols \in {4, 5}
    /\ precision_bits = 53
    /\ oracle \in Oracles(script)
    /\ file \in GridTables(ncols)
    /\ header = "names"
    /\ bad = {}
    /\ filter = NoFilter
    /\ Start

SpecGrid == InitGrid /\ [][Next]_vars

(***************************************************************************)
(* Every script on tables with or without a header line, and with at most  *)
(* one row that holds a field that is not a number                         *)
(***************************************************************************)
\* softmax/ulpscript.py converts no column; what its loop does with a column
\* of strings is left out
BadRows(sc, f) ==
    IF sc = "softmax/ulpscript.py" THEN {{}}
    ELSE {{}} \cup {{j} : j \in DOMAIN f}

InitLoad ==
    /\ script \in Scripts
    /\ ncols \in ColumnCounts(script)
    /\ precision_bits = 53
    /\ oracle \in {o \in Oracles(script) : o.f \in {"x", "none"} /\ o.fail_at = 0}
    /\ file \in Tables(ncols)
    /\ header \in HeaderKinds
    /\ bad \in BadRows(script, file)
    /\ filter = NoFilter
    /\ Start

SpecLoad == InitLoad /\ [][Next]_vars

(***************************************************************************)
(* Every script on tables whose rows are in any order                      *)
(***************************************************************************)
OrderResults == {20, 60}

\* the rows a table is made of: a coordinate and a result
OrderRows(nc) ==
    {k \in 0..(NumCoords(nc - 2) * Len(ResultValues) - 1) :
        ResultValues[(k % Len(ResultValues)) + 1] \in OrderResults}

AnyOrderTables(nc) ==
    {TableOf(idx, nc) :
        idx \in UNION {[1..len -> OrderRows(nc)] : len \in 1..MaxRows}}

InitOrder ==
    /\ script \in Scripts
    /\ ncols \in ColumnCounts(script)
    /\ precision_bits = 53
    /\ oracle \in {o \in Oracles(script) : o.f \in {"x", "none"} /\ o.fail_at = 0}
    /\ file \in AnyOrderTables(ncols)
    /\ header = "names"
    /\ bad = {}
    /\ filter = NoFilter
    /\ Start

SpecOrder == InitOrder /\ [][Next]_vars

(***************************************************************************)
(* softmax/plot.py with --filter, on the tables of a grid where a          *)
(* coordinate has one sample or none                                       *)
(***************************************************************************)
MaxFilterPairs == 1

PresenceTables(nc) ==
    LET coords == NestedLoops(GridAxes(nc - 2))
    IN  {GridRows(coords, counts, 1) :
            counts \in {cn \in [DOMAIN coords -> 0..1] :
                           \E c \in DOMAIN coords : cn[c] > 0}}

\* "x0=1", "x1=2", "x0=1,x2=2", ...: every input at most once (a later pair
\* of the same input replaces the earlier one), input k written k + 1
Filters(nc) ==
    LET pairs == [var : 1..(nc - 2), val : {1, 2, 3}]
    IN  {flt \in UNION {[1..len -> pairs] : len \in 0..MaxFilterPairs} :
            \A i, j \in DOMAIN flt : i < j => flt[i].var < flt[j].var}

\* the filter keeps one row at least
InitFilter ==
    /\ script = "softmax/plot.py"
    /\ ncols \in {4, 5}
    /\ precision_bits = 53
    /\ oracle \in Oracles(script)
    /\ file \in PresenceTables(ncols)
    /\ header = "names"
    /\ bad = {}
    /\ filter \in {flt \in Filters(ncols) :
                     \E j \in DOMAIN file :
                         \A k \in DOMAIN flt :
                             file[j][flt[k].var + 1] = flt[k].val}
    /\ Start

SpecFilter == InitFilter /\ [][Next]_vars

(***************************************************************************)
(* The ULP scripts step by step around the call of the reference program,  *)
(* which may exit with an error, print no number, never return, or not be  *)
(* there at all                                                            *)
(***************************************************************************)
OracleFaults ==
    [f : RefPrograms, fail_at : {0}, mode : {"exit", "missing"}]
    \cup [f : RefPrograms, fail_at : {X0Values[j] : j \in DOMAIN X0Values},
           mode : {"exit", "parse", "hang"}]

InitOracle ==
    /\ script \in UlpScripts
    /\ ncols \in ColumnCounts(script)
    /\ precision_bits \in Precisions(script)
    /\ oracle \in OracleFaults
    /\ file \in Tables(ncols)
    /\ header = "names"
    /\ bad = {}
    /\ filter = NoFilter
    /\ Start

\* the loop body up to subprocess.run: the child process is started
CallOracle ==
    /\ pc = "loop"
    /\ todo # <<>>
    /\ script \in UlpScripts
    /\ LET key == Head(todo)
       IN  /\ log' = log \o CallEvents(script, data, key)
           /\ IF OracleMissing(oracle)
              THEN \* FileNotFoundError: no process
                   /\ pc' = "aborted"
                   /\ failure' = OracleFailure(script, oracle, key)
                   /\ inflight' = inflight
              ELSE /\ pc' = IF OracleHangs(oracle, key) THEN "blocked"
                            ELSE "oracle"
                   /\ failure' = failure
                   /\ inflight' = inflight + Len(OracleCalls(data, key))
    /\ UNCHANGED <<inputs, data, detected, todo, out, grid, max_ulp, job>>

\* subprocess.run returns, and the loop body goes on to the row it writes
OracleReturn ==
    /\ pc = "oracle"
    /\ inflight' = inflight - 1
    /\ LET key == Head(todo)
       IN  IF OracleGivesNoValue(oracle, key)
           THEN /\ pc' = "aborted"
                /\ failure' = OracleFailure(script, oracle, key)
                /\ UNCHANGED <<todo, out, log, max_ulp>>
           ELSE LET r == GroupRecord(script, oracle, precision_bits, data, key)
                IN  /\ pc' = "loop"
                    /\ out' = Append(out, r)
                    /\ todo' = Tail(todo)
                    /\ log' = log \o ReturnEvents(script, key)
                    /\ max_ulp' = MaxAfter(script, max_ulp, r.ref.ulp_error, key)
                    /\ failure' = failure
    /\ UNCHANGED <<inputs, data, detected, grid, job>>

NextOracle == Load \/ CallOracle \/ OracleReturn \/ Finish

SpecOracle == InitOracle /\ [][NextOracle]_vars

(***************************************************************************)
(* softmax/generate_jobs.py: the job lines of a test pattern               *)
(***************************************************************************)
MaxIterations == 2

NInputs == {1, 2}
Patterns == {"grid", "diagonal", "fixed"}

\* one value of --ranges: "start:end", or a text that is not two numbers
RangeArgs ==
    {[ok |-> FALSE, start |-> 0, end |-> 0]}
    \cup [ok : {TRUE}, start : {1}, end : {2, 3}]
    \cup [ok : {TRUE}, start : {3}, end : {1, 2}]

\* one value of --steps: a number, or a text that is none
StepArgs == {[ok |-> FALSE, v |-> 0]} \cup [ok : {TRUE}, v : {0, 1, 2}]

\* --fixed xk=v, given or not for input k
FixedArgs == {[given |-> FALSE, v |-> 0], [given |-> TRUE, v |-> 5]}

\* the lists may be shorter than the number of inputs
JobArgs ==
    UNION {[pattern : Patterns, n_inputs : {n}, iterations : 1..MaxIterations,
            ranges : UNION {[1..len -> RangeArgs] : len \in 0..n},
            steps : UNION {[1..len -> StepArgs] : len \in 0..n},
            fixed : [1..n -> FixedArgs]] : n \in NInputs}

\* round(q) of Python: to the nearest integer, a half to the even one
RoundHalfEven(q) ==
    LET f == q.n \div q.d
        twice == 2 * (q.n - f * q.d)
    IN  IF twice < q.d THEN f
        ELSE IF twice > q.d THEN f + 1
        ELSE IF f % 2 = 0 THEN f ELSE f + 1

\* np.linspace(start, end, num) for num >= 0
linspace(start, end, num) ==
    IF num = 1 THEN <<RatInt(start)>>
    ELSE [j \in 1..num |->
             Rat(start * (num - 1) + (j - 1) * (end - start), num - 1)]

Raises == [ok |-> FALSE, seq |-> <<>>]

\* a step of 0 or less taken as one point
get_sequence_NoStepCheck(a, k) ==
    IF a.fixed[k].given THEN [ok |-> TRUE, seq |-> <<RatInt(a.fixed[k].v)>>]
    ELSE IF k > Len(a.ranges) \/ ~a.ranges[k].ok THEN Raises
    ELSE IF k > Len(a.steps) \/ ~a.steps[k].ok THEN Raises
    ELSE IF a.steps[k].v <= 0
    THEN [ok |-> TRUE, seq |-> <<RatInt(a.ranges[k].start)>>]
    ELSE LET num_points ==
                 RoundHalfEven(Rat(a.ranges[k].end - a.ranges[k].start,
                                   a.steps[k].v)) + 1
         IN  IF num_points < 0 THEN Raises
             ELSE [ok |-> TRUE,
                   seq |-> linspace(a.ranges[k].start, a.ranges[k].end,
                                    num_points)]

\* get_sequence('x<k-1>'): the values of an input, or sys.exit(1) / an
\* exception (KeyError or ValueError of the range, of float(steps[var]), of
\* np.linspace on a negative number of points)
get_sequence(a, k) ==
    IF a.fixed[k].given THEN [ok |-> TRUE, seq |-> <<RatInt(a.fixed[k].v)>>]
    ELSE IF k > Len(a.ranges) \/ ~a.ranges[k].ok THEN Raises
    ELSE IF k > Len(a.steps) \/ ~a.steps[k].ok THEN Raises
    ELSE IF a.steps[k].v <= 0 THEN Raises
    ELSE LET num_points ==
                 RoundHalfEven(Rat(a.ranges[k].end - a.ranges[k].start,
                                   a.steps[k].v)) + 1
         IN  IF num_points < 0 THEN Raises
             ELSE [ok |-> TRUE,
                   seq |-> linspace(a.ranges[k].start, a.ranges[k].end,
                                    num_points)]

\* job_iterator: itertools.product of the sequences of every input, or
\* (val,) * n_inputs for the values of x0
job_iterator(a) ==
    IF a.pattern = "diagonal"
    THEN LET s0 == get_sequence(a, 1)
         IN  [ok |-> s0.ok,
              combos |-> [j \in DOMAIN s0.seq |->
                             [k \in 1..a.n_inputs |-> s0.seq[j]]]]
    ELSE LET seqs == [k \in 1..a.n_inputs |-> get_sequence(a, k)]
         IN  IF \E k \in DOMAIN seqs : ~seqs[k].ok
             THEN [ok |-> FALSE, combos |-> <<>>]
             ELSE [ok |-> TRUE,
                   combos |-> NestedLoops([k \in DOMAIN seqs |-> seqs[k].seq])]

\* run_one_job n program 'v0' ['v1' ['v2']] [''...] 'i': the parameters are
\* padded with '' up to three
JobLine(combo, i) ==
    [combo |-> combo, pad |-> IF Len(combo) < 3 THEN 3 - Len(combo) ELSE 0,
     i |-> i]

\* for i in ...: for combo in job_iterator
RECURSIVE JobLines_IterationsOutside(_, _)
JobLines_IterationsOutside(combos, iterations) ==
    IF iterations = 0 THEN <<>>
    ELSE JobLines_IterationsOutside(combos, iterations - 1)
             \o [j \in DOMAIN combos |-> JobLine(combos[j], iterations)]

\* for combo in job_iterator: for i in range(1, iterations + 1)
RECURSIVE JobLines(_, _)
JobLines(combos, iterations) ==
    IF combos = <<>> THEN <<>>
    ELSE [i \in 1..iterations |-> JobLine(Head(combos), i)]
             \o JobLines(Tail(combos), iterations)

\* the pipeline of the analysis scripts is not part of a job generation
InitJobs ==
    /\ script = "softmax/generate_jobs.py"
    /\ ncols = 0
    /\ precision_bits = 0
    /\ oracle = [f |-> "none", fail_at |-> 0, mode |-> "exit"]
    /\ file = <<>>
    /\ header = "none"
    /\ bad = {}
    /\ filter = NoFilter
    /\ pc = "idle"
    /\ data = <<>>
    /\ detected = NoDetection
    /\ todo = <<>>
    /\ out = <<>>
    /\ grid = NoGrid
    /\ log = <<>>
    /\ inflight = 0
    /\ max_ulp = NoMax
    /\ failure = NoFailure
    /\ \E a \in JobArgs :
           job = [pc |-> "generate", args |-> a, pending |-> <<>>,
                  lines |-> <<>>, status |-> 0]

run == <<script, ncols, precision_bits, oracle, file, header, bad, filter,
         pc, data, detected, todo, out, grid, log, inflight, max_ulp, failure>>

\* the try block: every sequence is computed, or the script exits with 1
GenerateJobs ==
    /\ job.pc = "generate"
    /\ LET it == job_iterator(job.args)
       IN  IF it.ok
           THEN job' = [job EXCEPT !.pc = "print",
                                   !.pending = JobLines(it.combos,
                                                        job.args.iterations)]
           ELSE job' = [job EXCEPT !.pc = "exit", !.status = 1]
    /\ UNCHANGED run

\* print(...): one job line
PrintJob ==
    /\ job.pc = "print"
    /\ job.pending # <<>>
    /\ job' = [job EXCEPT !.lines = Append(@, Head(job.pending)),
                          !.pending = Tail(@)]
    /\ UNCHANGED run

\* the iterator is exhausted
EndJobs ==
    /\ job.pc = "print"
    /\ job.pending = <<>>
    /\ job' = [job EXCEPT !.pc = "exit"]
    /\ UNCHANGED run

NextJobs == GenerateJobs \/ PrintJob \/ EndJobs

SpecJobs == InitJobs /\ [][NextJobs]_vars

(***************************************************************************)
(* Properties                                                              *)
(***************************************************************************)
Records == {out[j] : j \in DOMAIN out}
Terminated == pc \in {"done", "aborted"}

\* the samples a record was computed from
ValuesOf(r) == ResultsOf(data, r.key)

\* the coordinate of a row by the column table: every column between the
\* sample index and the result
FileCoordinate(row) == SubSeq(row, 2, Len(row) - 1)

\* C1: in every script, a group whose std is 0 gets significant_digits =
\* precision_bits * log10(2), whatever its mean (0 included).
C1_StdZeroGivesMaxDigits ==
    \A r \in Records :
        IsZero(r.std) => r.sig_digits = SigFin(MaxDigits(precision_bits))

\* C2: in every script, a group with std > 0 (however small) and mean = 0
\* gets significant_digits = 0.
C2_ZeroMeanGivesZeroDigits ==
    \A r \in Records :
        (IsPos(r.std) /\ r.mean.n = 0) => r.sig_digits = SigFin(0)

\* C3: for every group with std >= 0 the significant_digits value lies in
\* [0, precision_bits * log10(2)].
C3_DigitsWithinBounds ==
    \A r \in Records :
        (IsZero(r.std) \/ IsPos(r.std)) =>
            /\ r.sig_digits.k = "fin"
            /\ 0 <= r.sig_digits.v
            /\ r.sig_digits.v <= MaxDigits(precision_bits)

\* C4: a group of exactly one sample has std exactly 0 (not NaN) and
\* significant_digits = precision_bits * log10(2).
C4_SingleSampleStdZero ==
    \A r \in Records :
        r.count = 1 =>
            /\ IsZero(r.std)
            /\ r.sig_digits = SigFin(MaxDigits(precision_bits))

\* C5: in every script std is the population standard deviation: std^2 times
\* the sample count n is the sum of the squared deviations from the mean
\* (n^3 * std^2 = sum of (n*x - S)^2).
C5_PopulationStd ==
    \A r \in Records :
        LET v == ValuesOf(r)
            n == Len(v)
        IN  /\ r.std.k = "fin"
            /\ r.std.q.n * n * n * n = SumSqDev(v, n, SeqSum(v)) * r.std.q.d

\* C6: when the run is complete, the groups partition the loaded samples by
\* full coordinate: every row is in exactly one group, no group is empty, and
\* the rows of one group agree in every input column of the table.
C6_GroupsPartitionByCoordinate ==
    pc = "done" =>
        /\ \A j \in DOMAIN file :
               Cardinality({h \in DOMAIN out : j \in out[h].rows}) = 1
        /\ \A r \in Records :
               /\ r.rows # {}
               /\ \A j, h \in r.rows :
                      FileCoordinate(file[j]) = FileCoordinate(file[h])

\* C7: when the run has ended and the oracle fails for a coordinate A of the
\* table and succeeds for a coordinate B, the run has completed (not aborted)
\* and the output holds a reference record for B.
C7_OracleFailureIsolation ==
    (Terminated /\ script \in UlpScripts) =>
        \A a, b \in {data[j].key : j \in DOMAIN data} :
            (OracleFails(oracle, a) /\ ~OracleFails(oracle, b)) =>
                /\ pc = "done"
                /\ \E r \in Records : r.key = b /\ r.ref.kind = "ulp"

\* the width a script takes the gap at
FractionBitsOf(sc) ==
    IF sc = "softmax/ulpscript.py" THEN Float32FractionBits
    ELSE Float64FractionBits

\* C8: for a nonzero true_value of either sign, ulp_error is abs_error divided
\* by the magnitude of the gap at true_value: it is never negative and it is
\* positive whenever abs_error is.
C8_UlpErrorByGapMagnitude ==
    \A r \in Records :
        (r.ref.kind = "ulp" /\ r.ref.true_value # 0) =>
            LET gapExp == FloorLog2(Abs(r.ref.true_value), 1)
                              - FractionBitsOf(script)
            IN  /\ r.ref.ulp_error = Scaled(r.ref.abs_error, -gapExp)
                /\ r.ref.ulp_error.q.n >= 0
                /\ r.ref.abs_error.n > 0 => r.ref.ulp_error.q.n > 0

\* C9: relative_error is |mean - true_value| / |true_value| for a nonzero
\* true_value, and for true_value = 0 it is |mean| when mean # 0 and 0
\* otherwise; it is never negative and no division by zero happens.
C9_RelativeError ==
    \A r \in Records :
        r.ref.kind = "rel" =>
            LET e == r.ref.true_value
                rel == r.ref.relative_error
            IN  /\ rel.k = "fin"
                /\ rel.q.n >= 0
                /\ e # 0 =>
                       rel.q.n * r.mean.d * Abs(e)
                           = rel.q.d * Abs(r.mean.n - e * r.mean.d)
                /\ e = 0 => rel.q.n * r.mean.d = rel.q.d * Abs(r.mean.n)

\* a relative error for a zero expected value and a nonzero mean
C9_Witness ==
    \E r \in Records :
        /\ r.ref.kind = "rel"
        /\ r.ref.true_value = 0
        /\ r.mean.n # 0
        /\ r.ref.relative_error.q.n > 0

\* C10: when the mean of a group equals the reference value, every reference
\* metric computed for it is zero: abs_error, relative_error and ulp_error.
C10_ExactMeanZeroErrors ==
    \A r \in Records :
        (r.ref.kind # "none" /\ r.mean = RatInt(r.ref.true_value)) =>
            /\ r.ref.abs_error.n = 0
            /\ r.ref.kind = "rel" => r.ref.relative_error = Fin(RatInt(0))
            /\ r.ref.kind = "ulp" => r.ref.ulp_error = Scaled(RatInt(0), 0)

\* a group of two samples whose mean is the negative reference value
C10_Witness ==
    \E r \in Records :
        /\ r.ref.kind = "ulp"
        /\ r.ref.true_value < 0
        /\ r.count > 1
        /\ r.mean = RatInt(r.ref.true_value)

\* the coordinates of the rows a run has loaded
LoadedCoordinates == {FileCoordinate(file[data[j].line]) : j \in DOMAIN data}

\* a set of coordinates that is the product of the value sets of its columns
RECURSIVE ProductSize(_, _)
ProductSize(C, k) ==
    IF k = 0 THEN 1
    ELSE Cardinality({c[k] : c \in C}) * ProductSize(C, k - 1)

IsCartesian(C, nd) == Cardinality(C) = ProductSize(C, nd)

\* a run that has returned a two-dimensional grid
GridReturned == pc = "done" /\ grid.kind \in {"sig_digits_grid", "heatmap"}

\* C11: when the coordinates of a table with two input columns are not the
\* complete Cartesian product of the values of x0 and of x1, grid assembly
\* fails: no run returns a grid for such a table.
C11_NonRectangularGridRejected ==
    (GridReturned /\ ncols = 4) => IsCartesian(LoadedCoordinates, 2)

\* the data rows of the table: every row but the malformed ones
DataRows == DOMAIN file \ bad

\* C12: detect_input_count reports input xk (k < total_inputs) as varying
\* exactly when column k+1 of the data rows of the table holds two distinct
\* values or more, and lists the varying inputs in the order x0, x1, x2.
C12_VaryingIffTwoValues ==
    (script = "softmax/plot.py" /\ pc \in {"loop", "done"}) =>
        /\ \A k \in 0..(detected.total_inputs - 1) :
               (\E h \in DOMAIN detected.varying : detected.varying[h] = k)
                   <=> Cardinality({file[j][k + 2] : j \in DataRows}) >= 2
        /\ \A h \in DOMAIN detected.varying :
               /\ detected.varying[h] < detected.total_inputs
               /\ h > 1 => detected.varying[h - 1] < detected.varying[h]

\* the input columns that hold more than one value
VaryingColumns(C, nd) == {k \in 1..nd : Cardinality({c[k] : c \in C}) > 1}

\* a table whose coordinates are a complete two-dimensional product: two
\* input columns, or three of which one is fixed (the third, for
\* plotsigfigs, which draws x0 against x1)
IsProduct2D ==
    /\ IsCartesian(LoadedCoordinates, ncols - 2)
    /\ ncols = 5 =>
           IF script = "softmax/plotsigfigs.py"
           THEN 3 \notin VaryingColumns(LoadedCoordinates, 3)
           ELSE Cardinality(VaryingColumns(LoadedCoordinates, 3)) = 2

\* the input columns drawn on the column axis (x) and on the row axis (y)
RetainedAxes ==
    IF ncols = 4 \/ script = "softmax/plotsigfigs.py" THEN [x |-> 1, y |-> 2]
    ELSE LET V == VaryingColumns(LoadedCoordinates, 3)
         IN  [x |-> CHOOSE k \in V : \A h \in V : k <= h,
              y |-> CHOOSE k \in V : \A h \in V : h <= k]

\* the group a coordinate of the table went to
RecordOf(c) ==
    CHOOSE r \in Records :
        \E j \in DOMAIN data :
            data[j].key = r.key /\ FileCoordinate(file[data[j].line]) = c

\* C13: a grid assembled from a complete product of N0 values of one input
\* and N1 values of the other has axes of exactly N0 and N1 values, the shape
\* (N1 rows, N0 columns), and every cell holds the statistics of exactly one
\* coordinate.
C13_CompleteProductGrid ==
    (GridReturned /\ IsProduct2D) =>
        LET C == LoadedCoordinates
            ax == RetainedAxes
            N0 == Cardinality({c[ax.x] : c \in C})
            N1 == Cardinality({c[ax.y] : c \in C})
        IN  /\ Len(grid.xs) = N0 /\ {grid.xs[i] : i \in 1..N0} = {c[ax.x] : c \in C}
            /\ Len(grid.ys) = N1 /\ {grid.ys[j] : j \in 1..N1} = {c[ax.y] : c \in C}
            /\ DOMAIN grid.sig = (1..N1) \X (1..N0)
            /\ \A j \in 1..N1, i \in 1..N0 :
                   /\ Cardinality({c \in C : c[ax.x] = grid.xs[i]
                                              /\ c[ax.y] = grid.ys[j]}) = 1
                   /\ \A c \in C :
                          (c[ax.x] = grid.xs[i] /\ c[ax.y] = grid.ys[j]) =>
                              /\ grid.sig[<<j, i>>] = RecordOf(c).sig_digits
                              /\ grid.kind = "heatmap" =>
                                     /\ grid.mean[<<j, i>>] = RecordOf(c).mean
                                     /\ grid.std[<<j, i>>] = RecordOf(c).std

\* a heatmap of 3 x 2 coordinates, and one of two dispersed samples among them
C13_Witness ==
    /\ GridReturned /\ IsProduct2D
    /\ grid.kind = "heatmap"
    /\ Len(grid.xs) = 3 /\ Len(grid.ys) = 2
    /\ \E r \in Records : r.count = 2 /\ IsPos(r.std)

\* the sum of the significant digits of a set of records
RECURSIVE SumSigDigits(_)
SumSigDigits(S) ==
    IF S = {} THEN 0
    ELSE LET r == CHOOSE x \in S : TRUE
         IN  r.sig_digits.v + SumSigDigits(S \ {r})

\* every cell of a projected plane that has coordinates holds the arithmetic
\* mean of the significant digits of exactly the coordinates on it
ProjectionIsMean ==
    (pc = "done" /\ grid.kind = "projections") =>
        \A h \in DOMAIN grid.planes :
            LET p == grid.planes[h]
            IN  \A j \in DOMAIN p.ys, i \in DOMAIN p.xs :
                    LET S == {r \in Records : /\ r.key[p.x] = p.xs[i]
                                              /\ r.key[p.y] = p.ys[j]}
                    IN  S # {} =>
                            p.sig[<<j, i>>].n * Cardinality(S)
                                = p.sig[<<j, i>>].d * SumSigDigits(S)

\* C14: coordinates that differ in a held-out input are combined by the
\* projection only: a two-dimensional grid made from a table with three
\* input columns has no group whose samples differ in the third input, and
\* every projected cell is the mean of the significant digits of the
\* coordinates that share its two retained components.
C14_OnlyProjectionCombines ==
    /\ (GridReturned /\ ncols = 5) =>
           \A r \in Records :
               \A j, h \in r.rows :
                   file[data[j].line][4] = file[data[h].line][4]
    /\ ProjectionIsMean

\* lexicographic order of coordinates of the same length
LexLess(a, b) ==
    \E m \in DOMAIN a :
        /\ \A h \in 1..(m - 1) : a[h] = b[h]
        /\ a[m] < b[m]

\* C15: whatever the order of the rows of the table, the statistics list is
\* strictly ascending by coordinate, lexicographically over (x0, x1, x2).
C15_AscendingByCoordinate ==
    \A a, b \in DOMAIN out : a < b => LexLess(out[a].key, out[b].key)

\* a complete run on a table with three input columns whose rows are not in
\* coordinate order, with three coordinates
C15_Witness ==
    /\ pc = "done"
    /\ ncols = 5
    /\ Len(out) = 3
    /\ \E j, h \in DOMAIN file :
           j < h /\ LexLess(FileCoordinate(file[h]), FileCoordinate(file[j]))

\* C16: when the run has ended, the export holds exactly one record for each
\* coordinate of the loaded samples: none is missing and none is there twice.
C16_OneRecordPerCoordinate ==
    Terminated =>
        /\ {out[a].key : a \in DOMAIN out} = {data[j].key : j \in DOMAIN data}
        /\ \A a, b \in DOMAIN out : out[a].key = out[b].key => a = b

\* a run that went on past loading
Loaded == pc \in {"loop", "done", "blocked"}

\* C17: a table with a row that holds a field that is not a number makes the
\* run fail: no run computes statistics from the other rows.
C17_MalformedRowFailsRun ==
    bad # {} => out = <<>>

\* C18: every loader takes the result of a row from its last column and the
\* coordinate from the columns after the first: component k of the
\* coordinate is column k+1, and the first column is never a coordinate.
C18_ColumnInterpretation ==
    \A j \in DOMAIN data :
        LET row == file[data[j].line]
        IN  /\ data[j].result = row[ncols]
            /\ \A k \in DOMAIN data[j].key : data[j].key[k] = row[k + 1]

\* C19: with or without a header line, a run that loads a table of
\* well-formed rows loads every row of it.
C19_EveryDataRowLoaded ==
    (Loaded /\ bad = {}) =>
        {data[j].line : j \in DOMAIN data} = DOMAIN file

\* C20: every call of the reference program is cut off by a timeout: no run
\* is ever left waiting on a reference program that does not return.
C20_OracleCallBounded ==
    pc # "blocked"

(***************************************************************************)
(* The order of the stages                                                 *)
(***************************************************************************)
\* the places of the log where a stage ran for a coordinate
Places(stage, key) ==
    {i \in DOMAIN log : log[i].stage = stage /\ log[i].key = key}

\* C21 as stated: once a later stage has started, for any coordinate, no
\* earlier stage is executed again (the stages in the order of one pass;
\* opening the output file is no stage).
C21_LinearPass ==
    LET StageRank(stage) ==
            CASE stage = "Load" -> 1
              [] stage = "Aggregate" -> 2
              [] stage = "EstimateDigits" -> 3
              [] stage \in {"Oracle", "ErrorEstimate"} -> 4
              [] stage = "Assemble" -> 5
              [] OTHER -> 0
        StageEvents == SelectSeq(log, LAMBDA e : StageRank(e.stage) > 0)
    IN  \A i, j \in DOMAIN StageEvents :
            i < j => StageRank(StageEvents[i].stage)
                         <= StageRank(StageEvents[j].stage)

\* C21: Load runs once and first; the loop takes one coordinate at a time
\* and runs no stage twice for it; for each coordinate Aggregate precedes
\* EstimateDigits, and the error estimate and the export or assembly of the
\* coordinate follow its digits and its reference value; what is assembled
\* after the loop ends the run.
C21_PerCoordinateOrder ==
    LET Before(stageA, stageB, key) ==
            \A j \in Places(stageB, key) : \E i \in Places(stageA, key) : i < j
    IN
    /\ log # <<>> => log[1].stage = "Load"
    /\ \A i \in DOMAIN log : log[i].stage = "Load" => i = 1
    /\ \A key \in {log[i].key : i \in DOMAIN log} \ {<<>>} :
          /\ \A stage \in {"Aggregate", "EstimateDigits", "Oracle",
                           "ErrorEstimate", "Assemble"} :
                 Cardinality(Places(stage, key)) <= 1
          /\ Before("Aggregate", "EstimateDigits", key)
          /\ Before("EstimateDigits", "ErrorEstimate", key)
          /\ Before("Oracle", "ErrorEstimate", key)
          /\ Before("EstimateDigits", "Assemble", key)
          /\ \A i, j, l \in DOMAIN log :
                 i < j /\ j < l /\ log[i].key = key /\ log[l].key = key
                     => log[j].key = key
    /\ \A i \in Places("Assemble", <<>>) : i = Len(log) /\ pc = "done"

\* a finished run of an ULP script over two coordinates at least: every
\* stage ran for each of them
C21_Witness ==
    /\ pc = "done"
    /\ script \in UlpScripts
    /\ Len(out) >= 2
    /\ \A j \in DOMAIN out : Places("Assemble", out[j].key) # {}

(***************************************************************************)
(* The reference program                                                   *)
(***************************************************************************)
\* C22: a reference program that exits with a non-zero status ends in an
\* execution failure that shows its standard error, one whose output is no
\* number ends in a parse failure, and in both cases no record of the
\* coordinate is written.
C22_OracleFailuresReported ==
    (pc = "aborted" /\ todo # <<>> /\ ~OracleMissing(oracle)) =>
        /\ OracleFails(oracle, Head(todo)) =>
               failure.kind = "execution" /\ failure.stderr
        /\ OracleUnparseable(oracle, Head(todo)) => failure.kind = "parse"
        /\ OracleGivesNoValue(oracle, Head(todo)) =>
               \A j \in DOMAIN out : out[j].key # Head(todo)

\* C23: a reference program that is missing ends the run with an
\* oracle-unavailable failure before any call of it and before the output
\* file is opened.
C23_UnavailableBeforeAnything ==
    /\ (OracleMissing(oracle) /\ pc = "aborted") => failure.kind = "unavailable"
    /\ failure.kind = "unavailable" =>
           /\ Places("OpenOutput", <<>>) = {}
           /\ \A i \in DOMAIN log : log[i].stage # "Oracle"

\* C24: at most one reference process is running at any time, and the
\* reference is called once for each coordinate, however many samples the
\* coordinate has.
C24_OneOracleAtATime ==
    LET DataKeys == {data[j].key : j \in DOMAIN data}
    IN
    /\ inflight \in {0, 1}
    /\ inflight = 1 <=> pc \in {"oracle", "blocked"}
    /\ \A key \in DataKeys : Cardinality(Places("Oracle", key)) <= 1
    /\ \A j \in DOMAIN out : Cardinality(Places("Oracle", out[j].key)) = 1
    /\ \A i \in DOMAIN log : log[i].stage = "Oracle" => log[i].key \in DataKeys

\* the reference runs for the second coordinate, which has two samples
\* at least, after the call for the first one has returned
C24_Witness ==
    /\ pc = "oracle"
    /\ inflight = 1
    /\ Len(out) >= 1
    /\ Cardinality(Mask(data, Head(todo))) >= 2
    /\ Places("Oracle", out[1].key) # {}

(***************************************************************************)
(* The largest ULP error                                                   *)
(***************************************************************************)
\* C27: after any number of groups max_ulp_error is the largest ulp_error so
\* far (0.0 when none is above 0) and max_ulp_x is the first coordinate
\* that has it, or None exactly when no ulp_error so far is above 0.
C27_RunningMaximum ==
    LET UlpErrorAt(j) == out[j].ref.ulp_error
        Positive(e) == ScaledGreater(e, NoMax.error)
    IN
    script \in {"gelu/ulpplot.py", "parallel_sum/ulpscript.py"} =>
        /\ \A j \in DOMAIN out : ~ScaledGreater(UlpErrorAt(j), max_ulp.error)
        /\ IF \E j \in DOMAIN out : Positive(UlpErrorAt(j))
           THEN \E j \in DOMAIN out :
                    /\ max_ulp.x = out[j].key
                    /\ max_ulp.error = UlpErrorAt(j)
                    /\ \A i \in 1..(j - 1) :
                           ScaledGreater(max_ulp.error, UlpErrorAt(i))
           ELSE max_ulp = NoMax

\* two coordinates with the same largest error: the first one is kept
C27_Witness ==
    /\ script \in {"gelu/ulpplot.py", "parallel_sum/ulpscript.py"}
    /\ pc = "done"
    /\ Len(out) >= 2
    /\ ScaledGreater(max_ulp.error, NoMax.error)
    /\ max_ulp.x = out[1].key
    /\ out[2].ref.ulp_error = max_ulp.error

(***************************************************************************)
(* The expected function of gelu/plot.py                                   *)
(***************************************************************************)
\* C25: when the expression given for the expected function cannot be
\* parsed or evaluated, gelu/plot.py goes on without an expected function:
\* once the table is loaded the run ends well, with the statistics of every coordinate and without
\* expected values or relative errors.
C25_InvalidExpectedFunctionIgnored ==
    (/\ script = "gelu/plot.py"
     /\ oracle.f = "invalid"
     /\ Terminated
     /\ failure # LoadFailure) =>
        /\ pc = "done"
        /\ failure = NoFailure
        /\ {out[j].key : j \in DOMAIN out} = {data[j].key : j \in DOMAIN data}
        /\ \A j \in DOMAIN out : out[j].ref = NoRef

(***************************************************************************)
(* The figure of softmax/plot.py                                           *)
(***************************************************************************)
\* the inputs that take more than one value among the statistics
VaryingInStats ==
    {k \in 1..(ncols - 2) : Cardinality({out[j].key[k] : j \in DOMAIN out}) > 1}

\* C26: in plot_2d_heatmap, when at most two inputs take more than one
\* value among the entries of stats, no two entries get the same cell
\* (j, i), so that every entry is still in the matrices after the loop.
C26_HeatmapCellsInjective ==
    LET ax == HeatmapAxes(out, detected.total_inputs)
        HeatmapCell(j) == CellOf(grid, out[j].key, ax.x, ax.y)
    IN
    (/\ script = "softmax/plot.py"
     /\ pc = "done"
     /\ grid.kind = "heatmap"
     /\ Cardinality(VaryingInStats) <= 2) =>
        /\ \A a, b \in DOMAIN out : HeatmapCell(a) = HeatmapCell(b) => a = b
        /\ \A a \in DOMAIN out : grid.mean[HeatmapCell(a)] = out[a].mean

\* a heatmap of a table of three inputs, after a filter removed rows
C26_Witness ==
    /\ script = "softmax/plot.py"
    /\ pc = "done"
    /\ grid.kind = "heatmap"
    /\ detected.total_inputs = 3
    /\ filter # NoFilter
    /\ Len(out) >= 2
    /\ Len(out) < Len(file)

\* C30: with --plot-type auto the figure that main makes is the one for the
\* number of inputs that vary among the coordinates of the statistics, also
\* when --filter removed rows after the varying inputs were detected.
C30_PlotTypeMatchesStatistics ==
    LET PlotTypeFor(n) ==
            IF n = 1 THEN "line" ELSE IF n = 2 THEN "heatmap" ELSE "stats"
    IN
    (script = "softmax/plot.py" /\ pc = "done") =>
        /\ PlotType(detected) = PlotTypeFor(Cardinality(VaryingInStats))
        /\ grid.kind = "heatmap" <=> Cardinality(VaryingInStats) = 2

(***************************************************************************)
(* The job lines                                                           *)
(***************************************************************************)
\* the values of input k, as a set
ValueSet(a, k) ==
    LET sq == get_sequence(a, k).seq IN {sq[j] : j \in DOMAIN sq}

\* C28: for the grid pattern the lines are iterations x |S0 x ... x S(n-1)|
\* in number, and every combination of the product is on exactly
\* `iterations` consecutive lines that carry the indices 1..iterations in
\* increasing order.
C28_GridJobLines ==
    (job.pc = "exit" /\ job.status = 0 /\ job.args.pattern = "grid") =>
        LET a == job.args
            \* S0 x ... x S(n-1)
            Combinations(b) ==
                {c \in [1..b.n_inputs ->
                           UNION {ValueSet(b, k) : k \in 1..b.n_inputs}] :
                    \A k \in 1..b.n_inputs : c[k] \in ValueSet(b, k)}
            LinesOf(c) == {p \in DOMAIN job.lines : job.lines[p].combo = c}
        IN  /\ Len(job.lines) = a.iterations * Cardinality(Combinations(a))
            /\ \A p \in DOMAIN job.lines : job.lines[p].combo \in Combinations(a)
            /\ \A c \in Combinations(a) :
                   /\ Cardinality(LinesOf(c)) = a.iterations
                   /\ \E first \in DOMAIN job.lines :
                          \A i \in 1..a.iterations :
                              /\ first + i - 1 \in LinesOf(c)
                              /\ job.lines[first + i - 1].i = i

\* a grid of two inputs with several values each and several iterations
C28_Witness ==
    /\ job.pc = "exit"
    /\ job.status = 0
    /\ job.args.pattern = "grid"
    /\ job.args.n_inputs = 2
    /\ job.args.iterations >= 2
    /\ \A k \in 1..2 : Cardinality(ValueSet(job.args, k)) >= 2
    /\ Len(job.lines) >= 8

\* an input whose sequence the pattern asks for has no range, a range that
\* is not two numbers, or a step that is a number and not positive
Rejected(a) ==
    LET Needed == IF a.pattern = "diagonal" THEN {1} ELSE 1..a.n_inputs
        BadRange(k) == k > Len(a.ranges) \/ ~a.ranges[k].ok
        BadStep(k) == k <= Len(a.steps) /\ a.steps[k].ok /\ a.steps[k].v <= 0
    IN  \E k \in Needed : ~a.fixed[k].given /\ (BadRange(k) \/ BadStep(k))

\* C29: for the grid, diagonal and fixed patterns, when an input that is
\* needed has no range, a range that is not two numbers, or a step <= 0,
\* the script exits with status 1 and no job line is ever printed.
C29_InvalidArgumentsPrintNothing ==
    Rejected(job.args) =>
        /\ job.lines = <<>>
        /\ job.pc # "print"
        /\ job.pc = "exit" => job.status = 1

\* the first input is in order and the second one is not
C29_Witness ==
    /\ job.pc = "exit"
    /\ job.status = 1
    /\ job.args.pattern = "grid"
    /\ job.args.n_inputs = 2
    /\ get_sequence(job.args, 1).ok
    /\ Len(get_sequence(job.args, 1).seq) >= 2
    /\ Rejected(job.args)

====
